---- MODULE Spec2Model ----
(***************************************************************************)
(* Token engine of the FastAPI auth gateway: issuance (token_generator.py)  *)
(* and verification against the remote JWKS (security.py).                 *)
(*                                                                         *)
(* A token is the record [wellformed, alg, kid, sig, payload]: the header  *)
(* fields, the name of the key material that produced the signature, and   *)
(* the claims.  An absent claim or a Python None is the value None.  A     *)
(* session id (str(uuid.uuid4())) is a positive integer, 0 standing for    *)
(* the absent/None session id.  A key is [kid, key]: a signature made with *)
(* the private half of key material k verifies with the public half of k   *)
(* and with no other.                                                      *)
(*                                                                         *)
(* The proxy route (routes.py, cores.py) serves one request at a time:     *)
(* the router picks the route, Depends(verify_token) runs, the request is  *)
(* replayed with client.stream, and the reply is read and returned.  The   *)
(* refresh endpoint's answer is part of the record of a refresh.           *)
(***************************************************************************)
EXTENDS Integers, Sequences, FiniteSets, Bags, TLC

VARIABLES
    now,          \* wall clock, seconds (datetime.now(timezone.utc))
    remote,       \* the JWKS endpoint: [up, keys]
    cache,        \* lru_cache of get_jwks: [filled, jwks]
    inflight,     \* bag of the tokens whose verification awaits the JWKS fetch
    privateJwk,   \* settings.JWT_PRIVATE_KEY
    nextUuid,     \* the next value uuid.uuid4() yields
    pair,         \* the last result of generate_token_pair, with its arguments
    last,         \* the last completed verify_token call and its outcome
    refreshed,    \* the last generate_access_token_from_refresh_token call
    pc,           \* where the proxied request stands
    request,      \* the inbound request of the proxy route
    user,         \* what Depends(verify_token) gave for this request
    calls,        \* the client.stream calls made for this request, in order
    response,     \* the upstream's reply to the call
    chunks,       \* the chunks of the reply's body read so far
    returned      \* what the route answered to the caller

\* the state of the proxy route
proxyVars == <<pc, request, user, calls, response, chunks, returned>>

vars == <<now, remote, cache, inflight, privateJwk, nextUuid, pair, last, refreshed,
          pc, request, user, calls, response, chunks, returned>>

----------------------------------------------------------------------------
(* Bounds of the model *)

MaxSessions == 1

----------------------------------------------------------------------------
(* Values *)

None == "None"
NoCache == [filled |-> FALSE, jwks |-> <<>>]

\* the threads of the pool that run verify_token
Workers == {"w1", "w2"}

TimePoints == {0, 1, 86401}

SUPABASE_JWT_ISSUER == "https://proj.supabase.co/auth/v1"
SUPABASE_JWT_AUDIENCE == "authenticated"

SecondsPerDay == 86400
RefreshAccessTTL == 3600
Leeway == 0

GatewayKey == [kid |-> "k1", key |-> "gw"]
SupabaseKey == [kid |-> "k2", key |-> "sb"]
MalformedKey == [kid |-> None, key |-> "malformed"]

\* the key sets the JWKS endpoint publishes over time (kids are distinct)
RemoteSets == { <<SupabaseKey>>, <<GatewayKey, SupabaseKey>> }

\* metadata dicts are sequences of strings: {} is <<>>, Python None is MNone
MNone == <<"None">>
MEmpty == <<>>

\* Python truthiness of a string / dict / session id
Falsy(v) == v \in {None, ""}
FalsyMeta(m) == m \in {MNone, MEmpty}

\* a or b
Or(a, b) == IF Falsy(a) THEN b ELSE a
OrMeta(a, b) == IF FalsyMeta(a) THEN b ELSE a

----------------------------------------------------------------------------
(* token_generator.py: issuance *)

\* load_private_key: the configured JWK, or Raised when it does not parse
Raised == [raised |-> TRUE]

load_private_key(jwk) ==
    IF jwk = MalformedKey THEN Raised ELSE jwk

\* the claims of a token; a field the token does not carry is None / MNone / 0
Payload(iss, sub, aud, exp, iat, email, role, um, am, sid, ttype) ==
    [iss |-> iss, sub |-> sub, aud |-> aud, exp |-> exp, iat |-> iat,
     email |-> email, role |-> role, user_metadata |-> um, app_metadata |-> am,
     session_id |-> sid, token_type |-> ttype]

\* jwt.encode(payload, private_key, algorithm="ES256", headers={"kid": kid})
jwt_encode(payload, key) ==
    [wellformed |-> TRUE, alg |-> "ES256", kid |-> key.kid, sig |-> key.key,
     payload |-> payload]

generate_access_token(user_id, email, role, user_metadata, app_metadata, session_id, expires_in_seconds, jwk, t, uuid) ==
    LET key == load_private_key(jwk)
        sid == IF session_id = 0 THEN uuid ELSE session_id
        um  == IF user_metadata = MNone
               THEN <<"email", email, "sub", user_id>> ELSE user_metadata
        am  == IF app_metadata = MNone
               THEN <<"provider", "email">> ELSE app_metadata
    IN  IF key = Raised THEN Raised
        ELSE jwt_encode(Payload(SUPABASE_JWT_ISSUER, user_id, SUPABASE_JWT_AUDIENCE,
                                t + expires_in_seconds, t, email, role, um, am,
                                sid, None), key)

generate_refresh_token(user_id, session_id, expires_in_days, jwk, t, uuid) ==
    LET key == load_private_key(jwk)
        sid == IF session_id = 0 THEN uuid ELSE session_id
    IN  IF key = Raised THEN Raised
        ELSE jwt_encode(Payload(SUPABASE_JWT_ISSUER, user_id, SUPABASE_JWT_AUDIENCE,
                                t + expires_in_days * SecondsPerDay, t, None, None,
                                MNone, MNone, sid, "refresh"), key)

\* generate_token_pair: one uuid4 shared by both tokens; Raised when either
\* token cannot be signed
generate_token_pair(user_id, email, role, user_metadata, app_metadata, access_token_expires_in, refresh_token_expires_in_days, jwk, t, uuid) ==
    LET session_id == uuid
        access_token == generate_access_token(user_id, email, role, user_metadata,
                            app_metadata, session_id, access_token_expires_in,
                            jwk, t, uuid)
        refresh_token == generate_refresh_token(user_id, session_id,
                            refresh_token_expires_in_days, jwk, t, uuid)
    IN  IF access_token = Raised \/ refresh_token = Raised THEN Raised
        ELSE [access_token |-> access_token, refresh_token |-> refresh_token,
              expires_in |-> access_token_expires_in, token_type |-> "bearer",
              session_id |-> session_id]

----------------------------------------------------------------------------
(* security.py: verification *)

\* index of the first jwk of the set whose kid is the given one, 0 if none
RECURSIVE FirstKid(_, _, _)
FirstKid(jwks, kid, i) ==
    IF i > Len(jwks) THEN 0
    ELSE IF jwks[i].kid = kid THEN i
    ELSE FirstKid(jwks, kid, i + 1)

\* get_public_key_by_kid falling back to the first key of the set
get_public_key_by_kid_fallback(jwks, kid) ==
    LET i == FirstKid(jwks, kid, 1)
    IN  IF i # 0 THEN jwks[i]
        ELSE IF Len(jwks) > 0 THEN jwks[1] ELSE Raised

\* get_public_key_by_kid: the first jwk with this kid, Raised when none has it
get_public_key_by_kid(jwks, kid) ==
    LET i == FirstKid(jwks, kid, 1)
    IN  IF i = 0 THEN Raised ELSE jwks[i]

\* get_token_kid: the header's kid, None when the token does not parse
get_token_kid(token) ==
    IF ~token.wellformed THEN None ELSE token.kid

\* exceptions: [type, msg]
Exc(type, msg) == [type |-> type, msg |-> msg]
NoExc == Exc("none", "")

\* jwt.decode with "verify_exp": False
jwt_decode_noexp(token, public_key, t) ==
    LET p == token.payload
    IN  IF token.alg # "ES256"
          THEN Exc("InvalidAlgorithmError", "The specified alg value is not allowed")
        ELSE IF token.sig # public_key.key
          THEN Exc("InvalidSignatureError", "Signature verification failed")
        ELSE IF p.iat > t + Leeway
          THEN Exc("ImmatureSignatureError", "The token is not yet valid (iat)")
        ELSE IF p.iss = None
          THEN Exc("MissingRequiredClaimError", "Token is missing the iss claim")
        ELSE IF p.iss # SUPABASE_JWT_ISSUER
          THEN Exc("InvalidIssuerError", "Invalid issuer")
        ELSE IF p.aud = None
          THEN Exc("MissingRequiredClaimError", "Token is missing the aud claim")
        ELSE IF p.aud # SUPABASE_JWT_AUDIENCE
          THEN Exc("InvalidAudienceError", "Audience doesn't match")
        ELSE NoExc

\* jwt.decode(token, public_key, algorithms=["ES256"], audience=..., issuer=...,
\* options all on): the first check that fails raises
jwt_decode(token, public_key, t) ==
    LET p == token.payload
    IN  IF token.alg # "ES256"
          THEN Exc("InvalidAlgorithmError", "The specified alg value is not allowed")
        ELSE IF token.sig # public_key.key
          THEN Exc("InvalidSignatureError", "Signature verification failed")
        ELSE IF p.iat > t + Leeway
          THEN Exc("ImmatureSignatureError", "The token is not yet valid (iat)")
        ELSE IF p.exp <= t - Leeway
          THEN Exc("ExpiredSignatureError", "Signature has expired")
        ELSE IF p.iss = None
          THEN Exc("MissingRequiredClaimError", "Token is missing the iss claim")
        ELSE IF p.iss # SUPABASE_JWT_ISSUER
          THEN Exc("InvalidIssuerError", "Invalid issuer")
        ELSE IF p.aud = None
          THEN Exc("MissingRequiredClaimError", "Token is missing the aud claim")
        ELSE IF p.aud # SUPABASE_JWT_AUDIENCE
          THEN Exc("InvalidAudienceError", "Audience doesn't match")
        ELSE NoExc

\* the subclasses of jwt.InvalidTokenError that no earlier handler names
InvalidTokenErrors ==
    {"InvalidTokenError", "DecodeError", "InvalidAlgorithmError",
     "ImmatureSignatureError", "MissingRequiredClaimError"}

\* the except clauses of verify_token: each maps the exception to an
\* HTTPException; detail is the sequence of the parts of the message
HTTPException(status_code, detail) == [status_code |-> status_code, detail |-> detail]

\* verify_token whose last handler answers 500, as verify_with_supabase_admin does
verify_token_except_500(e) ==
    IF e.type = "ExpiredSignatureError"
      THEN HTTPException(401, <<"Token has expired">>)
    ELSE IF e.type = "InvalidAudienceError"
      THEN HTTPException(401, <<"Invalid token audience">>)
    ELSE IF e.type = "InvalidIssuerError"
      THEN HTTPException(401, <<"Invalid token issuer">>)
    ELSE IF e.type = "InvalidSignatureError"
      THEN HTTPException(401, <<"Invalid token: Signature verification failed">>)
    ELSE IF e.type \in InvalidTokenErrors
      THEN HTTPException(401, <<"Invalid token: ", e.msg>>)
    ELSE HTTPException(500, <<"Could not validate credentials">>)

verify_token_except(e) ==
    IF e.type = "ExpiredSignatureError"
      THEN HTTPException(401, <<"Token has expired">>)
    ELSE IF e.type = "InvalidAudienceError"
      THEN HTTPException(401, <<"Invalid token audience">>)
    ELSE IF e.type = "InvalidIssuerError"
      THEN HTTPException(401, <<"Invalid token issuer">>)
    ELSE IF e.type = "InvalidSignatureError"
      THEN HTTPException(401, <<"Invalid token: Signature verification failed">>)
    ELSE IF e.type \in InvalidTokenErrors
      THEN HTTPException(401, <<"Invalid token: ", e.msg>>)
    ELSE HTTPException(401, <<"Could not validate credentials">>)

\* verify_token returning the email claim as sub
Identity_swapped(p) ==
    [sub |-> p.email, email |-> p.email, role |-> p.role, aud |-> p.aud,
     iss |-> p.iss, exp |-> p.exp, iat |-> p.iat,
     user_metadata |-> IF p.user_metadata = MNone THEN MEmpty ELSE p.user_metadata,
     app_metadata |-> IF p.app_metadata = MNone THEN MEmpty ELSE p.app_metadata,
     session_id |-> p.session_id]

\* the dict verify_token returns
Identity(p) ==
    [sub |-> p.sub, email |-> p.email, role |-> p.role, aud |-> p.aud,
     iss |-> p.iss, exp |-> p.exp, iat |-> p.iat,
     user_metadata |-> IF p.user_metadata = MNone THEN MEmpty ELSE p.user_metadata,
     app_metadata |-> IF p.app_metadata = MNone THEN MEmpty ELSE p.app_metadata,
     session_id |-> p.session_id]

NoIdentity == [none |-> TRUE]

\* the try block of verify_token once get_jwks has answered: fetched is the
\* exception get_jwks raised (NoExc when it returned jwks)
verify_token_body(token, fetched, jwks, t) ==
    LET token_kid == get_token_kid(token)
        public_key == get_public_key_by_kid(jwks, token_kid)
        e == IF Falsy(token_kid) THEN Exc("HTTPException", "Token missing kid in header")
             ELSE IF fetched # NoExc THEN fetched
             ELSE IF public_key = Raised
               THEN Exc("Exception", "No JWK found for kid")
             ELSE jwt_decode(token, public_key, t)
    IN  IF e = NoExc
        THEN [ok |-> TRUE, user |-> Identity(token.payload), exc |-> NoExc,
              error |-> HTTPException(200, <<>>)]
        ELSE [ok |-> FALSE, user |-> NoIdentity, exc |-> e,
              error |-> verify_token_except(e)]

----------------------------------------------------------------------------
(* token_generator.py: refresh *)

\* what supabase.auth.admin.get_user_by_id answers: it raises, it finds no
\* user, or it returns the user's current record
LookupRaised == [found |-> FALSE, raised |-> TRUE]
LookupNoUser == [found |-> FALSE, raised |-> FALSE]
LookupUser(email, role, um, am) ==
    [found |-> TRUE, raised |-> FALSE, email |-> email, role |-> role,
     user_metadata |-> um, app_metadata |-> am]

\* a fallback that ignores the claims of the refresh token
get_user_data_from_supabase_defaults(decoded, lookup) ==
    IF lookup.found
    THEN [email |-> lookup.email,
          user_metadata |-> OrMeta(lookup.user_metadata, MEmpty),
          app_metadata |-> OrMeta(lookup.app_metadata, MEmpty),
          role |-> Or(lookup.role, "authenticated")]
    ELSE [email |-> None, user_metadata |-> MEmpty, app_metadata |-> MEmpty,
          role |-> "authenticated"]

get_user_data_from_supabase(decoded, lookup) ==
    LET email == decoded.email
        user_metadata == IF decoded.user_metadata = MNone THEN MEmpty
                         ELSE decoded.user_metadata
        app_metadata == IF decoded.app_metadata = MNone THEN MEmpty
                        ELSE decoded.app_metadata
        role == IF decoded.role = None THEN "authenticated" ELSE decoded.role
    IN  IF lookup.found
        THEN [email |-> lookup.email,
              user_metadata |-> OrMeta(lookup.user_metadata, user_metadata),
              app_metadata |-> OrMeta(lookup.app_metadata, app_metadata),
              role |-> Or(lookup.role, role)]
        ELSE [email |-> email, user_metadata |-> user_metadata,
              app_metadata |-> app_metadata, role |-> role]

\* the refresh that does not hand the token's session_id to generate_access_token
generate_access_token_from_refresh_token_newsession(refresh_token, lookup, jwk, t, uuid) ==
    IF load_private_key(jwk) = Raised THEN Raised
    ELSE IF ~refresh_token.wellformed THEN Raised
    ELSE LET decoded == refresh_token.payload
             data == get_user_data_from_supabase(decoded, lookup)
             access_token == generate_access_token(decoded.sub, data.email,
                                 data.role, data.user_metadata, data.app_metadata,
                                 0, RefreshAccessTTL, jwk, t, uuid)
         IN  IF decoded.token_type # "refresh" THEN Raised
             ELSE IF access_token = Raised THEN Raised
             ELSE [access_token |-> access_token, expires_in |-> RefreshAccessTTL,
                   token_type |-> "bearer"]

\* generate_access_token_from_refresh_token: Raised, or the new access token
\* with its expires_in and token_type
generate_access_token_from_refresh_token(refresh_token, lookup, jwk, t, uuid) ==
    IF load_private_key(jwk) = Raised THEN Raised
    ELSE IF ~refresh_token.wellformed THEN Raised
    ELSE LET decoded == refresh_token.payload
             data == get_user_data_from_supabase(decoded, lookup)
             access_token == generate_access_token(decoded.sub, data.email,
                                 data.role, data.user_metadata, data.app_metadata,
                                 decoded.session_id, RefreshAccessTTL, jwk, t, uuid)
         IN  IF decoded.token_type # "refresh" THEN Raised
             ELSE IF access_token = Raised THEN Raised
             ELSE [access_token |-> access_token, expires_in |-> RefreshAccessTTL,
                   token_type |-> "bearer"]

\* HTTPException(**kwargs) as a call of fastapi's constructor
\* __init__(status_code, detail=None, headers=None): a call without
\* status_code, or with another keyword, raises TypeError
HTTPException_call(kwargs) ==
    IF "status_code" \in DOMAIN kwargs
       /\ DOMAIN kwargs \subseteq {"status_code", "detail", "headers"}
    THEN [raised |-> FALSE,
          error |-> HTTPException(kwargs.status_code, <<kwargs.detail>>)]
    ELSE [raised |-> TRUE,
          error |-> HTTPException(500, <<"Internal Server Error">>)]

\* routes.refresh_token: the answer of POST /auth/refresh, out being what
\* generate_access_token_from_refresh_token returned or Raised; an exception
\* no handler catches is answered 500 by the server
refresh_token_route(out) ==
    IF out # Raised
    THEN [status_code |-> 200, body |-> out, detail |-> <<>>]
    ELSE LET h == HTTPException_call([status |-> 401,
                       detail |-> "Invalid or expired refresh token"])
         IN  [status_code |-> h.error.status_code, body |-> Raised,
              detail |-> h.error.detail]

----------------------------------------------------------------------------
(* routes.py, cores.py: the proxy route *)

\* A path and a URL are sequences of "/" and segment names, a body and a chunk
\* are sequences of bytes, query parameters and headers arrive as sequences
\* of <<name, value>> in the order the client sent them.

PROXY_TARGET_URL == "http://up:9000"

\* the lower-case form of the header names the clients send; the ASGI server
\* hands header names over lower-cased
LowerCase ==
    [n \in {"Host", "Content-Length", "Connection", "Accept-Encoding",
            "Authorization", "Accept", "X-User-Id", "X-USER-ROLE",
            "X-User-ID", "X-User-Email", "X-User-Role"} |->
        CASE n = "Host" -> "host"
          [] n = "Content-Length" -> "content-length"
          [] n = "Connection" -> "connection"
          [] n = "Accept-Encoding" -> "accept-encoding"
          [] n = "Authorization" -> "authorization"
          [] n = "Accept" -> "accept"
          [] n = "X-User-Id" -> "x-user-id"
          [] n = "X-USER-ROLE" -> "x-user-role"
          [] n = "X-User-ID" -> "x-user-id"
          [] n = "X-User-Email" -> "x-user-email"
          [] n = "X-User-Role" -> "x-user-role"]

lower(name) == IF name \in DOMAIN LowerCase THEN LowerCase[name] ELSE name

\* the names of a sequence of <<name, value>>
Names(items) == {items[i][1] : i \in 1..Len(items)}

\* dict(request.query_params): one entry per name, holding the name's last value
dict_query_params(items) ==
    [k \in Names(items) |->
        LET i == CHOOSE i \in 1..Len(items) :
                    /\ items[i][1] = k
                    /\ \A j \in (i+1)..Len(items) : items[j][1] # k
        IN  items[i][2]]

\* dict(request.headers): one entry per lower-cased name, holding the name's
\* first value
dict_headers(items) ==
    [k \in {lower(n) : n \in Names(items)} |->
        LET i == CHOOSE i \in 1..Len(items) :
                    /\ lower(items[i][1]) = k
                    /\ \A j \in 1..(i-1) : lower(items[j][1]) # k
        IN  items[i][2]]

\* d.get(key, default), d.pop(key, None) for each key, d[key] = value, str(v)
get(d, key, default) == IF key \in DOMAIN d THEN d[key] ELSE default
pop(d, keys) == [k \in DOMAIN d \ keys |-> d[k]]
setitem(d, key, value) ==
    [k \in DOMAIN d \cup {key} |-> IF k = key THEN value ELSE d[k]]
str(v) == IF v = None THEN "None" ELSE v

headers_to_remove == {"host", "content-length", "connection", "accept-encoding"}

\* the router: the first route whose path and method match the request
router(method, target_path) ==
    IF method = "GET" /\ target_path = <<"proxy-test">> THEN "proxy_test"
    ELSE IF method = "GET" /\ target_path = <<"health">> THEN "proxy_health"
    ELSE "proxy_endpoint"

\* proxy_endpoint: one leading slash of the remaining path is dropped
strip_slash(target_path) ==
    IF target_path # <<>> /\ Head(target_path) = "/" THEN Tail(target_path)
    ELSE target_path

\* prepare_request: the headers of the outbound request
prepare_headers(items, u) ==
    LET h0 == pop(dict_headers(items), headers_to_remove)
        h1 == setitem(h0, "X-User-ID", str(get(u, "sub", "")))
        h2 == setitem(h1, "X-User-Email", str(get(u, "email", "")))
    IN  setitem(h2, "X-User-Role", str(get(u, "role", "")))

\* the arguments of client.stream
client_stream(req, target_path, u) ==
    [method |-> req.method,
     url |-> <<PROXY_TARGET_URL, "/">> \o target_path,
     params |-> dict_query_params(req.query_params),
     headers |-> prepare_headers(req.headers, u),
     content |-> req.body,
     follow_redirects |-> TRUE]

\* "application/json" in content_type
JsonTypes == {"application/json", "application/json; charset=utf-8"}

\* b''.join(chunks)
RECURSIVE join(_)
join(cs) == IF cs = <<>> THEN <<>> ELSE Head(cs) \o join(Tail(cs))

\* what the route answers: a response or the rendering of an HTTPException
Returned(status_code, media_type, content, exc) ==
    [status_code |-> status_code, media_type |-> media_type, content |-> content,
     exc |-> exc]

\* the JSON branch answering JSONResponse(content=json_data) with its default status
process_json_200(reply) ==
    IF reply.json # None
    THEN Returned(200, "application/json", reply.json, NoExc)
    ELSE Returned(reply.status_code, reply.content_type, join(reply.body), NoExc)

\* the JSON branch of process_response, after response.aread()
process_json(reply) ==
    IF reply.json # None
    THEN Returned(reply.status_code, "application/json", reply.json, NoExc)
    ELSE Returned(reply.status_code, reply.content_type, join(reply.body), NoExc)

\* the other branch, once every chunk is read
process_binary(reply, cs) ==
    Returned(reply.status_code, reply.content_type, join(cs), NoExc)

\* the classes of httpx the handlers name
TimeoutExceptions == {"ConnectTimeout", "ReadTimeout"}
RequestErrors ==
    TimeoutExceptions \cup {"ConnectError", "ReadError", "TooManyRedirects"}

\* the except clauses with the httpx.RequestError clause first
forward_except_swapped(e) ==
    IF e.type \in RequestErrors
      THEN Returned(502, "application/json",
                    <<"Failed to connect to the target service: ", e.msg>>, e)
    ELSE IF e.type \in TimeoutExceptions
      THEN Returned(504, "application/json",
                    <<"Target service did not respond in time.">>, e)
    ELSE Returned(500, "application/json", <<"Proxy error: ", e.msg>>, e)

\* the except clauses of forward_authenticated_user
forward_except(e) ==
    IF e.type \in TimeoutExceptions
      THEN Returned(504, "application/json",
                    <<"Target service did not respond in time.">>, e)
    ELSE IF e.type \in RequestErrors
      THEN Returned(502, "application/json",
                    <<"Failed to connect to the target service: ", e.msg>>, e)
    ELSE Returned(500, "application/json", <<"Proxy error: ", e.msg>>, e)

----------------------------------------------------------------------------
(* Inputs *)

\* the users the identity provider knows, as sign-in returns them
Users ==
    { [id |-> "u1", email |-> "u1@x.com", role |-> None,
       user_metadata |-> MNone, app_metadata |-> MNone],
      [id |-> "u2", email |-> "u2@x.com", role |-> "admin",
       user_metadata |-> <<"plan", "pro">>, app_metadata |-> <<"provider", "email">>] }

AccessTTLs == {1, 2}
RefreshDays == {1}

Lookups ==
    { LookupRaised, LookupNoUser,
      LookupUser("new@x.com", "admin", <<"plan", "free">>, MEmpty),
      LookupUser(None, None, MNone, MNone) }

FetchErrors == {"Failed to fetch JWKs from Supabase: timed out",
                "Failed to fetch JWKs from Supabase: 503 Server Error"}

\* a token of the pair as a client may alter it: t itself; its header kid
\* removed or unknown; an unparseable string; a forged signature; another
\* alg; another, or no, audience; another issuer
Variants(t) ==
    { t,
      [t EXCEPT !.kid = None],
      [t EXCEPT !.kid = "k9"],
      [t EXCEPT !.wellformed = FALSE],
      [t EXCEPT !.sig = "evil"],
      [t EXCEPT !.alg = "HS256"],
      [t EXCEPT !.payload.aud = "other"],
      [t EXCEPT !.payload.aud = None],
      [t EXCEPT !.payload.iss = "https://evil.example"] }

\* tokens whose exp is in the past, with another audience or a forged signature
Expired(t) ==
    LET e == [t EXCEPT !.payload.exp = 0]
    IN  { [e EXCEPT !.payload.aud = "other"], [e EXCEPT !.sig = "evil"] }

\* a refresh token made up by a client that holds no key
ForgedRefresh ==
    jwt_encode(Payload("https://evil.example", "u2", "other", 0, 0, None, "admin",
                       MNone, MNone, 0, "refresh"),
               [kid |-> "k1", key |-> "evil"])

\* an access token of the third-party issuer, signed with its key
ThirdPartyToken ==
    jwt_encode(Payload(SUPABASE_JWT_ISSUER, "ext", SUPABASE_JWT_AUDIENCE, 86400, 0,
                       "ext@x.com", "authenticated", MEmpty, MEmpty, 0, None),
               SupabaseKey)

\* the bearer tokens presented to verify_token
VerifyInputs ==
    {ThirdPartyToken, ForgedRefresh}
    \cup (IF pair.issued
          THEN Variants(pair.access_token) \cup Expired(pair.access_token)
               \cup {pair.refresh_token}
          ELSE {})

\* the refresh tokens presented to /auth/refresh
RefreshInputs ==
    {ForgedRefresh}
    \cup (IF pair.issued
          THEN { pair.refresh_token, pair.access_token,
                 [pair.refresh_token EXCEPT !.wellformed = FALSE],
                 [pair.refresh_token EXCEPT !.sig = "evil"],
                 [pair.refresh_token EXCEPT !.payload.exp = 0],
                 [pair.refresh_token EXCEPT !.payload.aud = "other"],
                 [pair.refresh_token EXCEPT !.payload.iss = "https://evil.example"] }
          ELSE {})

\* the requests clients send to /auth/proxy/{target_path}: a GET carries no
\* body; the second kind of request repeats a query parameter and carries
\* identity headers of its own
Methods == {"GET", "POST"}

Paths ==
    { <<"posts", "/", "1">>, <<"/", "posts">>, <<"/", "/", "posts">>,
      <<"health">>, <<"proxy-test">> }

PlainHeaders ==
    << <<"Host", "gw:8000">>, <<"Authorization", "Bearer">>,
       <<"Accept-Encoding", "gzip">>, <<"Content-Length", "2">>,
       <<"Connection", "keep-alive">>, <<"Accept", "*/*">> >>

SpoofHeaders ==
    << <<"Host", "gw:8000">>, <<"Authorization", "Bearer">>,
       <<"X-User-Id", "root">>, <<"x-user-email", "root@x.com">>,
       <<"X-USER-ROLE", "admin">> >>

ClientRequests ==
    { [method |-> m, target_path |-> p,
       query_params |-> IF plain THEN << <<"page", "2">> >>
                        ELSE << <<"tag", "a">>, <<"tag", "b">> >>,
       headers |-> IF plain THEN PlainHeaders ELSE SpoofHeaders,
       body |-> IF m = "GET" THEN <<>> ELSE <<7, 8>>]
      : m \in Methods, p \in Paths, plain \in BOOLEAN }

\* a request without Authorization: Bearer credentials
NoBearer == [missing |-> TRUE]

\* the bearer tokens presented to the proxy route
ProxyTokens ==
    {NoBearer, ThirdPartyToken}
    \cup (IF pair.issued
          THEN { pair.access_token, [pair.access_token EXCEPT !.sig = "evil"],
                 pair.refresh_token }
          ELSE {})

\* the replies of the upstream: [status_code, content_type, body, json], json
\* being the value the body parses to, None when it does not parse
Reply(status_code, content_type, body, json) ==
    [status_code |-> status_code, content_type |-> content_type, body |-> body,
     json |-> json]

Replies ==
    { Reply(200, "application/json", << <<1, 2>> >>, "v1"),
      Reply(404, "application/json; charset=utf-8", << <<3>> >>, "v2"),
      Reply(200, "application/json", << <<9>>, <<9>> >>, None),
      Reply(200, "application/octet-stream", << <<1, 2>>, <<3>> >>, None),
      Reply(500, "text/html", << <<4>> >>, None),
      Reply(204, "application/octet-stream", <<>>, None) }

\* what the call, or the reading of the reply, can raise
UpstreamErrors ==
    { Exc("ConnectTimeout", "timed out"),
      Exc("ReadTimeout", "timed out"),
      Exc("ConnectError", "All connection attempts failed"),
      Exc("TooManyRedirects", "Exceeded maximum allowed redirects."),
      Exc("UnicodeDecodeError", "invalid start byte") }

\* the statuses HTTPBearer answers a request without credentials with
NotAuthenticated == {401, 403}

----------------------------------------------------------------------------
(* State machine *)

NoPair == [issued |-> FALSE]
NoVerify == [done |-> FALSE]
NoRefresh == [done |-> FALSE]
NoRequest == [none |-> TRUE]
NoUser == [none |-> TRUE]
NoResponse == [none |-> TRUE]
NoReturn == [none |-> TRUE]

Init ==
    /\ now = 0
    /\ remote \in [up : BOOLEAN, keys : RemoteSets]
    /\ cache = NoCache
    /\ inflight = EmptyBag
    /\ privateJwk \in {GatewayKey, MalformedKey}
    /\ nextUuid = 1
    /\ pair = NoPair
    /\ last = NoVerify
    /\ refreshed = NoRefresh
    /\ pc = "idle"
    /\ request = NoRequest
    /\ user = NoUser
    /\ calls = <<>>
    /\ response = NoResponse
    /\ chunks = <<>>
    /\ returned = NoReturn

\* time passes
Tick ==
    /\ \E t \in TimePoints : t > now /\ now' = t
    /\ UNCHANGED <<remote, cache, inflight, privateJwk, nextUuid, pair, last, refreshed>>

\* the issuer publishes another key set
RemoteRotate ==
    /\ \E ks \in RemoteSets : ks # remote.keys /\ remote' = [remote EXCEPT !.keys = ks]
    /\ UNCHANGED <<now, cache, inflight, privateJwk, nextUuid, pair, last, refreshed>>

\* the JWKS endpoint goes down or comes back
RemoteToggle ==
    /\ remote' = [remote EXCEPT !.up = ~remote.up]
    /\ UNCHANGED <<now, cache, inflight, privateJwk, nextUuid, pair, last, refreshed>>

\* routes.login after a successful sign-in: generate_token_pair
login ==
    /\ nextUuid <= MaxSessions
    /\ \E u \in Users, ttl \in AccessTTLs, days \in RefreshDays :
         LET args == [user_id |-> u.id, email |-> u.email,
                      role |-> Or(u.role, "authenticated"),
                      user_metadata |-> OrMeta(u.user_metadata, MEmpty),
                      app_metadata |-> OrMeta(u.app_metadata, MEmpty),
                      access_token_expires_in |-> ttl,
                      refresh_token_expires_in_days |-> days]
             tokens == generate_token_pair(args.user_id, args.email, args.role,
                           args.user_metadata, args.app_metadata, ttl, days,
                           privateJwk, now, nextUuid)
         IN  pair' = IF tokens = Raised THEN pair
                     ELSE [issued |-> TRUE, args |-> args, at |-> now] @@ tokens
    /\ nextUuid' = nextUuid + 1
    /\ UNCHANGED <<now, remote, cache, inflight, privateJwk, last, refreshed>>

\* the record of a completed verify_token call
Verified(token, fetches, fetched, jwks) ==
    [done |-> TRUE, token |-> token, at |-> now, fetches |-> fetches, jwks |-> jwks,
     out |-> verify_token_body(token, fetched, jwks, now)]

\* verify_token up to the JWKS fetch, on one of the given threads that is
\* free: a token without kid and a cache hit finish at once, a cache miss
\* sends the request and waits for the answer
verify_token(threads) ==
    /\ BagCardinality(inflight) < Cardinality(threads)
    /\ \E token \in VerifyInputs :
         IF Falsy(get_token_kid(token))
         THEN /\ last' = Verified(token, 0, NoExc, <<>>)
              /\ UNCHANGED inflight
         ELSE IF cache.filled
         THEN /\ last' = Verified(token, 0, NoExc, cache.jwks)
              /\ UNCHANGED inflight
         ELSE /\ inflight' = inflight (+) SetToBag({token})
              /\ UNCHANGED last
    /\ UNCHANGED <<now, remote, cache, privateJwk, nextUuid, pair, refreshed>>

\* a get_jwks that remembers a failed fetch as an empty key set
get_jwks_returns_cachefail ==
    /\ \E token \in BagToSet(inflight) :
         /\ inflight' = inflight (-) SetToBag({token})
         /\ IF remote.up
            THEN /\ cache' = IF cache.filled THEN cache
                             ELSE [filled |-> TRUE, jwks |-> remote.keys]
                 /\ last' = Verified(token, 1, NoExc, remote.keys)
            ELSE /\ cache' = IF cache.filled THEN cache
                             ELSE [filled |-> TRUE, jwks |-> <<>>]
                 /\ \E msg \in FetchErrors :
                      last' = Verified(token, 1, Exc("Exception", msg), <<>>)
    /\ UNCHANGED <<now, remote, privateJwk, nextUuid, pair, refreshed>>

\* get_jwks answers a waiting verification: the result is stored in the
\* lru_cache unless the cache was filled meanwhile, an exception is not stored
get_jwks_returns ==
    /\ \E token \in BagToSet(inflight) :
         /\ inflight' = inflight (-) SetToBag({token})
         /\ IF remote.up
            THEN /\ cache' = IF cache.filled THEN cache
                             ELSE [filled |-> TRUE, jwks |-> remote.keys]
                 /\ last' = Verified(token, 1, NoExc, remote.keys)
            ELSE /\ UNCHANGED cache
                 /\ \E msg \in FetchErrors :
                      last' = Verified(token, 1, Exc("Exception", msg), <<>>)
    /\ UNCHANGED <<now, remote, privateJwk, nextUuid, pair, refreshed>>

\* routes.refresh_token: generate_access_token_from_refresh_token
refresh_token ==
    /\ \E token \in RefreshInputs, lookup \in Lookups :
         LET out == generate_access_token_from_refresh_token(token, lookup,
                        privateJwk, now, nextUuid)
             fresh == out # Raised /\ token.payload.session_id = 0
         IN  /\ refreshed' = [done |-> TRUE, token |-> token, lookup |-> lookup,
                              at |-> now, ok |-> out # Raised, out |-> out,
                              response |-> refresh_token_route(out)]
             /\ nextUuid' = IF fresh THEN nextUuid + 1 ELSE nextUuid
             /\ fresh => nextUuid <= MaxSessions
    /\ UNCHANGED <<now, remote, cache, inflight, privateJwk, pair, last>>

\* a request arrives at the proxy prefix
proxy_request ==
    /\ pc \in {"idle", "done"}
    /\ \E r \in ClientRequests, token \in ProxyTokens :
         request' = [method |-> r.method, target_path |-> r.target_path,
                     query_params |-> r.query_params, headers |-> r.headers,
                     body |-> r.body, token |-> token,
                     route |-> router(r.method, r.target_path)]
    /\ pc' = "routed"
    /\ user' = NoUser
    /\ calls' = <<>>
    /\ response' = NoResponse
    /\ chunks' = <<>>
    /\ returned' = NoReturn
    /\ UNCHANGED <<now, remote, cache, inflight, privateJwk, nextUuid, pair, last, refreshed>>

\* routes.proxy_health: no dependency
proxy_health ==
    /\ pc = "routed"
    /\ request.route = "proxy_health"
    /\ returned' = Returned(200, "application/json", <<"Proxy server is running">>, NoExc)
    /\ pc' = "done"
    /\ UNCHANGED <<now, remote, cache, inflight, privateJwk, nextUuid, pair, last, refreshed>>
    /\ UNCHANGED <<request, user, calls, response, chunks>>

\* the result of verify_token for the request's token, with the cache it leaves
Depends(token) ==
    IF Falsy(get_token_kid(token))
    THEN [out |-> verify_token_body(token, NoExc, <<>>, now), cache |-> cache]
    ELSE IF cache.filled
    THEN [out |-> verify_token_body(token, NoExc, cache.jwks, now), cache |-> cache]
    ELSE IF remote.up
    THEN [out |-> verify_token_body(token, NoExc, remote.keys, now),
          cache |-> [filled |-> TRUE, jwks |-> remote.keys]]
    ELSE [out |-> verify_token_body(token,
                      Exc("Exception", "Failed to fetch JWKs from Supabase: timed out"),
                      <<>>, now),
          cache |-> cache]

\* a route that runs its endpoint whatever verify_token answered
Depends_verify_token_optional ==
    /\ pc = "routed"
    /\ request.route # "proxy_health"
    /\ IF request.token = NoBearer
       THEN /\ \E st \in NotAuthenticated :
                 user' = [ok |-> FALSE, user |-> NoIdentity,
                          exc |-> Exc("HTTPException", "Not authenticated"),
                          error |-> HTTPException(st, <<"Not authenticated">>)]
            /\ UNCHANGED cache
       ELSE LET d == Depends(request.token)
            IN  user' = d.out /\ cache' = d.cache
    /\ pc' = "endpoint"
    /\ UNCHANGED <<now, remote, inflight, privateJwk, nextUuid, pair, last, refreshed>>
    /\ UNCHANGED <<request, calls, response, chunks, returned>>

\* Depends(verify_token) of proxy_test and proxy_endpoint: the endpoint runs
\* only when the dependency returned
Depends_verify_token ==
    /\ pc = "routed"
    /\ request.route # "proxy_health"
    /\ IF request.token = NoBearer
       THEN /\ \E st \in NotAuthenticated :
                 /\ user' = [ok |-> FALSE, user |-> NoIdentity,
                             exc |-> Exc("HTTPException", "Not authenticated"),
                             error |-> HTTPException(st, <<"Not authenticated">>)]
                 /\ returned' = Returned(st, "application/json",
                                         <<"Not authenticated">>, NoExc)
            /\ pc' = "done"
            /\ UNCHANGED cache
       ELSE LET d == Depends(request.token)
            IN  /\ user' = d.out
                /\ cache' = d.cache
                /\ IF d.out.ok
                   THEN pc' = "endpoint" /\ UNCHANGED returned
                   ELSE /\ pc' = "done"
                        /\ returned' = Returned(d.out.error.status_code,
                                           "application/json", d.out.error.detail, NoExc)
    /\ UNCHANGED <<now, remote, inflight, privateJwk, nextUuid, pair, last, refreshed>>
    /\ UNCHANGED <<request, calls, response, chunks>>

\* routes.proxy_test
proxy_test ==
    /\ pc = "endpoint"
    /\ request.route = "proxy_test"
    /\ returned' = Returned(200, "application/json", <<"Proxy route is accessible">>, NoExc)
    /\ pc' = "done"
    /\ UNCHANGED <<now, remote, cache, inflight, privateJwk, nextUuid, pair, last, refreshed>>
    /\ UNCHANGED <<request, user, calls, response, chunks>>

\* routes.proxy_endpoint and forward_authenticated_user up to client.stream
proxy_endpoint ==
    /\ pc = "endpoint"
    /\ request.route = "proxy_endpoint"
    /\ calls' = Append(calls, client_stream(request, strip_slash(request.target_path),
                                            user.user))
    /\ pc' = "sent"
    /\ UNCHANGED <<now, remote, cache, inflight, privateJwk, nextUuid, pair, last, refreshed>>
    /\ UNCHANGED <<request, user, response, chunks, returned>>

\* the upstream's status line and headers arrive
upstream_responds ==
    /\ pc = "sent"
    /\ \E reply \in Replies : response' = reply
    /\ pc' = "reading"
    /\ UNCHANGED <<now, remote, cache, inflight, privateJwk, nextUuid, pair, last, refreshed>>
    /\ UNCHANGED <<request, user, calls, chunks, returned>>

\* a forwarder that sends the request a second time after a timeout
upstream_raises_retry ==
    /\ pc \in {"sent", "reading"}
    /\ \E e \in UpstreamErrors :
         IF e.type \in TimeoutExceptions /\ Len(calls) < 2
         THEN /\ calls' = Append(calls, calls[1])
              /\ pc' = "sent"
              /\ response' = NoResponse
              /\ chunks' = <<>>
              /\ UNCHANGED returned
         ELSE /\ returned' = forward_except(e)
              /\ pc' = "done"
              /\ UNCHANGED <<calls, response, chunks>>
    /\ UNCHANGED <<now, remote, cache, inflight, privateJwk, nextUuid, pair, last, refreshed>>
    /\ UNCHANGED <<request, user>>

\* the call, or the reading of the reply, raises: the except clauses answer
upstream_raises ==
    /\ pc \in {"sent", "reading"}
    /\ \E e \in UpstreamErrors : returned' = forward_except(e)
    /\ pc' = "done"
    /\ UNCHANGED <<now, remote, cache, inflight, privateJwk, nextUuid, pair, last, refreshed>>
    /\ UNCHANGED <<request, user, calls, response, chunks>>

\* a JSON reply: response.aread(), response.json(), JSONResponse or Response
aread_json ==
    /\ pc = "reading"
    /\ response.content_type \in JsonTypes
    /\ returned' = process_json(response)
    /\ pc' = "done"
    /\ UNCHANGED <<now, remote, cache, inflight, privateJwk, nextUuid, pair, last, refreshed>>
    /\ UNCHANGED <<request, user, calls, response, chunks>>

\* any other reply: one round of the loop over response.aiter_bytes()
aiter_bytes ==
    /\ pc = "reading"
    /\ response.content_type \notin JsonTypes
    /\ Len(chunks) < Len(response.body)
    /\ chunks' = Append(chunks, response.body[Len(chunks) + 1])
    /\ UNCHANGED <<now, remote, cache, inflight, privateJwk, nextUuid, pair, last, refreshed>>
    /\ UNCHANGED <<pc, request, user, calls, response, returned>>

\* the loop has ended: Response(content=b''.join(chunks), ...)
return_binary ==
    /\ pc = "reading"
    /\ response.content_type \notin JsonTypes
    /\ Len(chunks) = Len(response.body)
    /\ returned' = process_binary(response, chunks)
    /\ pc' = "done"
    /\ UNCHANGED <<now, remote, cache, inflight, privateJwk, nextUuid, pair, last, refreshed>>
    /\ UNCHANGED <<request, user, calls, response, chunks>>

Next ==
    \/ Tick /\ UNCHANGED proxyVars
    \/ RemoteRotate /\ UNCHANGED proxyVars
    \/ RemoteToggle /\ UNCHANGED proxyVars
    \/ login /\ UNCHANGED proxyVars
    \/ verify_token({"w1"}) /\ UNCHANGED proxyVars
    \/ get_jwks_returns /\ UNCHANGED proxyVars

\* the gate serving one request at a time
Spec == Init /\ [][Next]_vars

NextConc ==
    \/ Tick /\ UNCHANGED proxyVars
    \/ RemoteRotate /\ UNCHANGED proxyVars
    \/ RemoteToggle /\ UNCHANGED proxyVars
    \/ login /\ UNCHANGED proxyVars
    \/ verify_token(Workers) /\ UNCHANGED proxyVars
    \/ get_jwks_returns /\ UNCHANGED proxyVars

\* the gate serving requests on all threads of the pool
ConcSpec == Init /\ [][NextConc]_vars

NextRefresh ==
    \/ Tick /\ UNCHANGED proxyVars
    \/ login /\ UNCHANGED proxyVars
    \/ refresh_token /\ UNCHANGED proxyVars

\* the refresh endpoint, which uses neither the JWKS cache nor verify_token
RefreshSpec == Init /\ [][NextRefresh]_vars

NextProxy ==
    \/ login /\ UNCHANGED proxyVars
    \/ proxy_request
    \/ proxy_health
    \/ Depends_verify_token
    \/ proxy_test
    \/ proxy_endpoint
    \/ upstream_responds
    \/ upstream_raises
    \/ aread_json
    \/ aiter_bytes
    \/ return_binary

\* the proxy route serving one request at a time
ProxySpec == Init /\ [][NextProxy]_vars

----------------------------------------------------------------------------
(* Claims *)

\* the token's header names a key of the set
KidResolves(token, jwks) ==
    /\ token.wellformed
    /\ \E i \in 1..Len(jwks) : jwks[i].kid = token.kid

\* the key is one of the set
KeyIn(key, jwks) == \E i \in 1..Len(jwks) : jwks[i] = key

\* the key material the gateway and the third-party issuer sign with
TrustedKeys == {GatewayKey.key, SupabaseKey.key}

\* every message an internal exception can carry
Messages ==
    FetchErrors \cup
    {"Token missing kid in header", "No JWK found for kid",
     "The specified alg value is not allowed", "Signature verification failed",
     "The token is not yet valid (iat)", "Signature has expired",
     "Token is missing the iss claim", "Invalid issuer",
     "Token is missing the aud claim", "Audience doesn't match"}

\* C1: the refresh endpoint issues an access token only for a token that is
\* signed by a trusted key, unexpired, carries the configured audience and
\* issuer and has token-type refresh.
C1_RefreshOnlyVerified ==
    (refreshed.done /\ refreshed.ok) =>
        LET t == refreshed.token
        IN  /\ t.sig \in TrustedKeys
            /\ t.payload.exp > refreshed.at
            /\ t.payload.aud = SUPABASE_JWT_AUDIENCE
            /\ t.payload.iss = SUPABASE_JWT_ISSUER
            /\ t.payload.token_type = "refresh"

\* C2: verify_token rejects the refresh token of an issued pair, and the
\* refresh endpoint rejects the pair's access token.
C2_TypeSeparation ==
    pair.issued =>
        /\ (last.done /\ last.token = pair.refresh_token) => ~last.out.ok
        /\ (refreshed.done /\ refreshed.token = pair.access_token) => ~refreshed.ok

\* C3: the access token of an issued pair, verified before its expiry with
\* the signing key's public key in the key set get_jwks returned, is accepted
\* and the identity carries the sub, email and role given to generate_token_pair.
C3_VerifyIssuedAccess ==
    ( /\ last.done
      /\ pair.issued
      /\ last.token = pair.access_token
      /\ last.at < pair.at + pair.args.access_token_expires_in
      /\ KeyIn(privateJwk, last.jwks) ) =>
        /\ last.out.ok
        /\ last.out.user.sub = pair.args.user_id
        /\ last.out.user.email = pair.args.email
        /\ last.out.user.role = pair.args.role

C3_Witness ==
    /\ last.done
    /\ pair.issued
    /\ last.token = pair.access_token
    /\ last.at > pair.at
    /\ last.at < pair.at + pair.args.access_token_expires_in
    /\ last.out.ok
    /\ last.out.user.sub = pair.args.user_id

C5_MissRefetches ==
    ( /\ last.done
      /\ ~Falsy(get_token_kid(last.token))
      /\ last.fetches = 0 ) =>
        KidResolves(last.token, last.jwks)

\* C6: concurrent verifications that find the cache empty share one fetch of
\* the remote key set: at most one fetch is in flight.
C6_SingleFlight ==
    BagCardinality(inflight) <= 1

\* C7: both tokens of a pair carry the pair's session id, and so does every
\* access token the refresh endpoint makes from the pair's refresh token.
C7_SessionStable ==
    pair.issued =>
        /\ pair.session_id # 0
        /\ pair.access_token.payload.session_id = pair.session_id
        /\ pair.refresh_token.payload.session_id = pair.session_id
        /\ (refreshed.done /\ refreshed.ok /\ refreshed.token = pair.refresh_token) =>
               refreshed.out.access_token.payload.session_id = pair.session_id

C7_Witness ==
    /\ pair.issued
    /\ refreshed.done
    /\ refreshed.ok
    /\ refreshed.token = pair.refresh_token
    /\ refreshed.at > pair.at
    /\ refreshed.lookup.found

\* C8: a token whose exp lies more than the leeway in the past is rejected,
\* whatever its signature, audience and issuer.
C8_ExpiredRejected ==
    (last.done /\ last.token.payload.exp < last.at - Leeway) => ~last.out.ok

C8_Witness ==
    /\ last.done
    /\ last.token.payload.exp = last.at - Leeway - 1
    /\ last.out.exc.type = "ExpiredSignatureError"
    /\ ~last.out.ok

\* C9: every verification either succeeds with an identity or fails with
\* status 401 and no identity.
C9_AllFailures401 ==
    last.done =>
        \/ last.out.ok /\ last.out.exc = NoExc /\ last.out.user # NoIdentity
        \/ /\ ~last.out.ok
           /\ last.out.error.status_code = 401
           /\ last.out.user = NoIdentity

C9_Witness ==
    /\ last.done
    /\ ~last.out.ok
    /\ last.out.exc.msg \in FetchErrors
    /\ last.out.error.status_code = 401

\* C10: the response to a failed verification does not depend on the message
\* of the internal exception.
C10_NoInternalText ==
    (last.done /\ ~last.out.ok) =>
        \A m \in Messages :
            verify_token_except(Exc(last.out.exc.type, m)) = last.out.error

\* the <<name, value>> entries of a dict
Items(d) == {<<k, d[k]>> : k \in DOMAIN d}

\* the entries of a sequence of <<name, value>>
Sent(items) == {items[i] : i \in 1..Len(items)}

IdentityHeaders == {"X-User-ID", "X-User-Email", "X-User-Role"}

\* the request's token passes verify_token now
ValidToken ==
    /\ request.token # NoBearer
    /\ Depends(request.token).out.ok

\* C11: the outbound request always carries X-User-ID, X-User-Email and
\* X-User-Role, and the header of a claim (sub, email, role) that the verified
\* token does not carry is the empty string.
C11_IdentityHeaders ==
    \A i \in 1..Len(calls) :
        LET h == calls[i].headers
            p == request.token.payload
        IN  /\ IdentityHeaders \subseteq DOMAIN h
            /\ p.sub = None => h["X-User-ID"] = ""
            /\ p.email = None => h["X-User-Email"] = ""
            /\ p.role = None => h["X-User-Role"] = ""

\* C12: the outbound request has the inbound method, query parameters and
\* body, the URL upstream base + "/" + the remaining path less one leading
\* slash, and the inbound headers without host, content-length, connection
\* and accept-encoding, with the identity headers added.
C12_Replay ==
    \A i \in 1..Len(calls) :
        LET c == calls[i]
            p == request.target_path
            kept == {h \in Sent(request.headers) : lower(h[1]) \notin
                        {"host", "content-length", "connection", "accept-encoding"}}
        IN  /\ c.method = request.method
            /\ c.content = request.body
            /\ Items(c.params) = Sent(request.query_params)
            /\ c.url = <<PROXY_TARGET_URL, "/">> \o
                       (IF p # <<>> /\ p[1] = "/" THEN SubSeq(p, 2, Len(p)) ELSE p)
            /\ DOMAIN c.headers = {lower(h[1]) : h \in kept} \cup IdentityHeaders
            /\ \A h \in kept : c.headers[lower(h[1])] = h[2]

C15_AtMostOnce ==
    /\ Len(calls) <= 1
    /\ (pc = "done" /\ returned.exc # NoExc) => Len(calls) = 1

C15_Witness ==
    /\ pc = "done"
    /\ returned.exc.type = "ConnectTimeout"
    /\ request.method = "POST"
    /\ Len(calls) = 1

\* C16: a reply that is not JSON is streamed: the forwarder never holds the
\* complete body of a reply of several chunks while nothing has been emitted
\* to the caller, and the bytes delivered are the upstream's bytes in order.
C16_Streams ==
    /\ ~ ( /\ pc = "reading"
           /\ response.content_type \notin JsonTypes
           /\ Len(response.body) > 1
           /\ chunks = response.body
           /\ returned = NoReturn )
    /\ ( /\ pc = "done"
         /\ Len(calls) > 0
         /\ returned.exc = NoExc
         /\ response.content_type \notin JsonTypes ) =>
            returned.content = join(response.body)

\* C20: an upstream call is made only after verify_token has succeeded for
\* the same request; a request without a token, or whose token is rejected,
\* makes no upstream call.
C20_VerifyBeforeForward ==
    /\ Len(calls) > 0 =>
           /\ user # NoUser
           /\ user.ok
           /\ request.token # NoBearer
           /\ request.token.sig \in TrustedKeys
    /\ (pc = "done" /\ user # NoUser /\ ~user.ok) => calls = <<>>

C20_Witness ==
    /\ pc = "done"
    /\ request.route = "proxy_endpoint"
    /\ request.token # NoBearer
    /\ request.token.sig = "evil"
    /\ ~user.ok
    /\ returned.status_code = 401
    /\ calls = <<>>

\* the claims of the access token the refresh made
Refreshed == refreshed.out.access_token.payload

\* the refresh gets as far as the lookup: the key loads, the token parses and
\* its token_type is refresh
Refreshable ==
    /\ load_private_key(privateJwk) # Raised
    /\ refreshed.token.wellformed
    /\ refreshed.token.payload.token_type = "refresh"

\* C17 as stated: when the lookup fails the refresh succeeds with the email,
\* role and metadata embedded in the refresh token; when it succeeds the
\* provider's values are used.
C17_FallbackEmbedded ==
    (refreshed.done /\ Refreshable) =>
        /\ refreshed.ok
        /\ IF refreshed.lookup.found
           THEN /\ Refreshed.email = refreshed.lookup.email
                /\ Refreshed.role = refreshed.lookup.role
                /\ Refreshed.user_metadata = refreshed.lookup.user_metadata
                /\ Refreshed.app_metadata = refreshed.lookup.app_metadata
           ELSE /\ Refreshed.email = refreshed.token.payload.email
                /\ Refreshed.role = refreshed.token.payload.role
                /\ Refreshed.user_metadata = refreshed.token.payload.user_metadata
                /\ Refreshed.app_metadata = refreshed.token.payload.app_metadata

\* C17 amended: when the lookup fails the refresh succeeds, with the email
\* embedded in the refresh token, the embedded role or "authenticated" when
\* none is embedded, and the embedded metadata or empty metadata when none is
\* embedded; when the lookup succeeds the provider's email is used, and the
\* provider's role and metadata where they are not empty, the values of the
\* failed lookup otherwise.
C17_FallbackOrDefault ==
    (refreshed.done /\ Refreshable) =>
        LET e == refreshed.token.payload
            l == refreshed.lookup
            role == IF e.role = None THEN "authenticated" ELSE e.role
            um == IF e.user_metadata = MNone THEN MEmpty ELSE e.user_metadata
            am == IF e.app_metadata = MNone THEN MEmpty ELSE e.app_metadata
        IN  /\ refreshed.ok
            /\ Refreshed.sub = e.sub
            /\ IF l.found
               THEN /\ Refreshed.email = l.email
                    /\ Refreshed.role = IF l.role \in {None, ""} THEN role ELSE l.role
                    /\ Refreshed.user_metadata =
                           IF l.user_metadata \in {MNone, MEmpty} THEN um
                           ELSE l.user_metadata
                    /\ Refreshed.app_metadata =
                           IF l.app_metadata \in {MNone, MEmpty} THEN am
                           ELSE l.app_metadata
               ELSE /\ Refreshed.email = e.email
                    /\ Refreshed.role = role
                    /\ Refreshed.user_metadata = um
                    /\ Refreshed.app_metadata = am

C17_Witness ==
    /\ refreshed.done
    /\ refreshed.ok
    /\ pair.issued
    /\ refreshed.lookup = LookupRaised
    /\ refreshed.token = pair.refresh_token
    /\ Refreshed.role = "authenticated"
    /\ Refreshed.email = None

\* C18: a verification changes neither the token nor the key cache, and the
\* same valid token verified again at the same time, the remote key set being
\* the one the first verification saw and every fetch answered, gives the
\* same identity.
C18_Idempotent ==
    [][ (last' # last) =>
          /\ cache' = cache
          /\ ( /\ last.done
               /\ last.out.ok
               /\ last'.token = last.token
               /\ last'.at = last.at
               /\ last.fetches = 1 => last.jwks = remote.keys
               /\ last'.fetches = 1 => last'.jwks = remote.keys ) =>
                  /\ last'.out.ok
                  /\ last'.out.user = last.out.user ]_vars

\* C19: /auth/refresh answers a rejected token with 401 and the detail
\* 'Invalid or expired refresh token', and an accepted one with a body of
\* access_token, expires_in and token_type only.
C19_RefreshAnswers ==
    refreshed.done =>
        IF refreshed.ok
        THEN /\ refreshed.response.status_code = 200
             /\ DOMAIN refreshed.response.body =
                    {"access_token", "expires_in", "token_type"}
        ELSE /\ refreshed.response.status_code = 401
             /\ refreshed.response.detail = <<"Invalid or expired refresh token">>

\* the header lines of the outbound request that name, in any letter case,
\* the given header
Lines(h, name) == {k \in DOMAIN h : lower(k) = name}

\* C21: the outbound request holds exactly one value for each identity
\* header, whatever identity headers the inbound request carried, and it is
\* the value of the verified identity.
C21_OnlyVerifiedIdentity ==
    \A i \in 1..Len(calls) :
        LET h == calls[i].headers
        IN  /\ Cardinality(Lines(h, "x-user-id")) = 1
            /\ Cardinality(Lines(h, "x-user-email")) = 1
            /\ Cardinality(Lines(h, "x-user-role")) = 1
            /\ \A k \in Lines(h, "x-user-id") : h[k] = str(user.user.sub)
            /\ \A k \in Lines(h, "x-user-email") : h[k] = str(user.user.email)
            /\ \A k \in Lines(h, "x-user-role") : h[k] = str(user.user.role)

\* the token is one verify_token has to accept at time t with this key set
ValidFor(token, jwks, t) ==
    /\ token.wellformed
    /\ token.alg = "ES256"
    /\ \E i \in 1..Len(jwks) : jwks[i].kid = token.kid /\ jwks[i].key = token.sig
    /\ token.payload.iat <= t
    /\ token.payload.exp > t
    /\ token.payload.iss = SUPABASE_JWT_ISSUER
    /\ token.payload.aud = SUPABASE_JWT_AUDIENCE

\* the last verification failed because the remote key set could not be fetched
FetchFailed(v) == v.done /\ ~v.out.ok /\ v.out.exc.msg \in FetchErrors

\* C22: a failed fetch of the key set is not stored; while no fetch has
\* succeeded, the verification that follows a failed one fetches again, and
\* accepts a valid token when the endpoint answers; once a fetch has
\* succeeded no further fetch is started.
C22_FailedFetchNotCached ==
    [][ /\ (last' # last /\ FetchFailed(last')) => cache' = cache
        /\ ( /\ FetchFailed(last)
             /\ ~cache.filled
             /\ last' # last
             /\ ~Falsy(get_token_kid(last'.token)) ) =>
                /\ last'.fetches = 1
                /\ (remote.up /\ ValidFor(last'.token, remote.keys, now)) =>
                       /\ last'.out.ok
                       /\ cache' = [filled |-> TRUE, jwks |-> remote.keys]
        /\ cache.filled =>
               /\ cache' = cache
               /\ BagCardinality(inflight') <= BagCardinality(inflight)
               /\ (last' # last /\ inflight' = inflight) => last'.fetches = 0 ]_vars

\* a verification failed on the fetch, the endpoint answers again, and the
\* pair's unexpired access token awaits the new fetch
C22_Witness ==
    /\ FetchFailed(last)
    /\ ~cache.filled
    /\ remote.up
    /\ pair.issued
    /\ BagIn(pair.access_token, inflight)
    /\ ValidFor(pair.access_token, remote.keys, now)

====
